---- MODULE Spec2Model ----
(***************************************************************************)
(* Math OCR: the math-pattern annotator (detectMathPatterns), the line     *)
(* reconstruction and the page stream driver of the process-pdf route, the *)
(* consumer loop of the upload page (handleUpload) and the per-line        *)
(* segmentation of MathRenderer.                                           *)
(*                                                                         *)
(* A string is a sequence of characters; a character is a one-element      *)
(* TLA+ string, and a non-ASCII character is written as a named atom       *)
(* ("GREEK_pi" is the letter pi, "SQRT" the radical sign, "NBSP" the       *)
(* no-break space U+00A0).                                                 *)
(***************************************************************************)
EXTENDS Integers, Sequences, FiniteSets, TLC

VARIABLES
    text,        \* annotator: the page text given to detectMathPatterns
    processed,   \* annotator: the local `processed`
    before,      \* annotator: `processed` before the last rule ran
    phase,       \* annotator: the rule that runs next
    textItems,   \* reconstruction: textContent.items of the page
    itemIdx,     \* reconstruction: the item forEach visits next
    pageText,    \* reconstruction: the local `pageText`
    lastY,       \* reconstruction: the local `lastY`
    rpc,         \* reconstruction: "idle", "forEach", "cleanup" or "done"
    line,        \* renderer: the line of the forEach callback
    lastIndex,   \* renderer: the local `lastIndex` (0-based, as in the code)
    regexIndex,  \* renderer: lastIndex of the regular expression being run
    hasDisplayMath, \* renderer: the local `hasDisplayMath`
    children,    \* renderer: the child spans of lineDiv, in order
    lineDivText, \* renderer: lineDiv.textContent when it was set directly
    mpc,         \* renderer: "idle", "display", "inline", "rest" or "done"
    pc,          \* route: the awaited operation of start(), "done", "aborted"
    pageNum,     \* route: the loop variable (0 before the loop)
    numPages,    \* route: pdf.numPages
    pdfOpen,     \* route: the document is loaded and not destroyed
    loads,       \* route: the documents getDocument has loaded
    closed,      \* route: controller.close() was called
    cancelled,   \* stream: the consumer cancelled it
    thrown,      \* route: what the catch block caught ("none" so far)
    inflight,    \* stream: the bytes enqueued and not yet read
    emitted,     \* route: the events enqueued, in order
    cpc,         \* page: "idle", "reading", "finished" or "gone"
    pending,     \* page: the incomplete UTF-8 sequence the decoder holds
    buffer,      \* page: the local `buffer`
    results,     \* page: the state `results`
    progress,    \* page: the state `progress`
    error,       \* page: the state `error`
    processing,  \* page: the state `processing`
    handled      \* page: the events parsed and dispatched, in order

annotVars == <<text, processed, before, phase>>

reconVars == <<textItems, itemIdx, pageText, lastY, rpc>>

renderVars ==
    <<line, lastIndex, regexIndex, hasDisplayMath, children, lineDivText, mpc>>

streamVars ==
    <<pc, pageNum, numPages, pdfOpen, loads, closed, cancelled, thrown,
      inflight, emitted, cpc, pending, buffer, results, progress, error,
      processing, handled>>

vars == <<annotVars, reconVars, renderVars, streamVars>>

(***************************************************************************)
(* Each component is checked on its own; the variables of the others stay  *)
(* in their idle state.                                                    *)
(***************************************************************************)
AnnotIdle ==
    /\ text = <<>>
    /\ processed = <<>>
    /\ before = <<>>
    /\ phase = "idle"

ReconIdle ==
    /\ textItems = <<>>
    /\ itemIdx = 0
    /\ pageText = <<>>
    /\ lastY = 0
    /\ rpc = "idle"

RenderIdle ==
    /\ line = <<>>
    /\ lastIndex = 0
    /\ regexIndex = 0
    /\ hasDisplayMath = FALSE
    /\ children = <<>>
    /\ lineDivText = <<>>
    /\ mpc = "idle"

StreamIdle ==
    /\ pc = "idle"
    /\ pageNum = 0
    /\ numPages = 0
    /\ pdfOpen = FALSE
    /\ loads = 0
    /\ closed = FALSE
    /\ cancelled = FALSE
    /\ thrown = "none"
    /\ inflight = <<>>
    /\ emitted = <<>>
    /\ cpc = "idle"
    /\ pending = <<>>
    /\ buffer = <<>>
    /\ results = <<>>
    /\ progress = <<>>
    /\ error = <<>>
    /\ processing = FALSE
    /\ handled = <<>>

(***************************************************************************)
(* Characters and character classes of the regular expressions.            *)
(***************************************************************************)
NL == "\n"

Digit == {"0", "1", "2", "3", "4", "5", "6", "7", "8", "9"}

Lower == {"a", "b", "c", "d", "e", "f", "g", "h", "i", "j", "k", "l", "m",
          "n", "o", "p", "q", "r", "s", "t", "u", "v", "w", "x", "y", "z"}

Upper == {"A", "B", "C", "D", "E", "F", "G", "H", "I", "J", "K", "L", "M",
          "N", "O", "P", "Q", "R", "S", "T", "U", "V", "W", "X", "Y", "Z"}

\* [a-zA-Z0-9]
Alnum == Lower \cup Upper \cup Digit

\* \s, and what String.prototype.trim strips
WhiteSpace == {" ", NL, "\t", "\r", "NBSP"}

\* the class as it would be had it been widened for the braces the
\* exponent rule inserts
EquationClassWithBraces ==
    Alnum \cup {"+", "-", "*", "/", "^", "(", ")", ".", "{", "}"} \cup WhiteSpace

\* [a-zA-Z0-9+\-*/^().\s] of equationPattern
EquationClass == Alnum \cup {"+", "-", "*", "/", "^", "(", ")", "."} \cup WhiteSpace

\* [+\-*/^=] of the equation test
OperatorClass == {"+", "-", "*", "/", "^", "="}

(***************************************************************************)
(* String helpers.                                                         *)
(***************************************************************************)
\* s.substring(i - 1, j): the characters i..j (1-based, inclusive)
Sub(s, i, j) == IF j < i THEN <<>> ELSE SubSeq(s, i, j)

\* the first index >= i whose character is outside class C (Len(s)+1 if none)
RECURSIVE RunEnd(_, _, _)
RunEnd(s, i, C) ==
    IF i > Len(s) \/ s[i] \notin C THEN i ELSE RunEnd(s, i + 1, C)

\* the first index >= i whose character is c (Len(s)+1 if none)
RECURSIVE IndexOf(_, _, _)
IndexOf(s, c, i) ==
    IF i > Len(s) \/ s[i] = c THEN i ELSE IndexOf(s, c, i + 1)

Includes(s, C) == \E i \in 1..Len(s) : s[i] \in C

RECURSIVE TrimStart(_)
TrimStart(s) ==
    IF s # <<>> /\ Head(s) \in WhiteSpace THEN TrimStart(Tail(s)) ELSE s

RECURSIVE TrimEnd(_)
TrimEnd(s) ==
    IF s # <<>> /\ s[Len(s)] \in WhiteSpace
    THEN TrimEnd(SubSeq(s, 1, Len(s) - 1)) ELSE s

\* String.prototype.trim
Trim(s) == TrimEnd(TrimStart(s))

\* the concatenation of ss[lo..hi], halving the range
RECURSIVE ConcatRange(_, _, _)
ConcatRange(ss, lo, hi) ==
    IF lo > hi THEN <<>>
    ELSE IF lo = hi THEN ss[lo]
    ELSE ConcatRange(ss, lo, (lo + hi) \div 2)
             \o ConcatRange(ss, ((lo + hi) \div 2) + 1, hi)

\* the concatenation of a sequence of strings
Concat(ss) == ConcatRange(ss, 1, Len(ss))

\* the sequences over A of length at most n
Strings(A, n) == UNION {[1..k -> A] : k \in 0..n}

(***************************************************************************)
(* detectMathPatterns: one operator per replace call.  Each scans from the *)
(* left as a global regular expression does: at the first position where   *)
(* the pattern matches, the match is replaced and the scan resumes after   *)
(* it; a character no match starts at is copied.                           *)
(***************************************************************************)

\* processed.replace(/(\d+)\/(\d+)/g, '\\frac{$1}{$2}')
RECURSIVE FractionFrom(_, _)
FractionFrom(s, i) ==
    IF i > Len(s) THEN <<>>
    ELSE LET j == RunEnd(s, i, Digit) IN
         IF j > i /\ j + 1 <= Len(s) /\ s[j] = "/" /\ s[j + 1] \in Digit
         THEN LET k == RunEnd(s, j + 1, Digit) IN
              <<"\\", "f", "r", "a", "c", "{">> \o Sub(s, i, j - 1)
                  \o <<"}", "{">> \o Sub(s, j + 1, k - 1) \o <<"}">>
                  \o FractionFrom(s, k)
         ELSE <<s[i]>> \o FractionFrom(s, i + 1)

FractionRule(s) == FractionFrom(s, 1)

\* processed.replace(/([a-zA-Z0-9]+)\^(\d+)/g, '$1^{$2}')
RECURSIVE ExponentDigitsFrom(_, _)
ExponentDigitsFrom(s, i) ==
    IF i > Len(s) THEN <<>>
    ELSE LET j == RunEnd(s, i, Alnum) IN
         IF j > i /\ j + 1 <= Len(s) /\ s[j] = "^" /\ s[j + 1] \in Digit
         THEN LET k == RunEnd(s, j + 1, Digit) IN
              Sub(s, i, j - 1) \o <<"^", "{">> \o Sub(s, j + 1, k - 1)
                  \o <<"}">> \o ExponentDigitsFrom(s, k)
         ELSE <<s[i]>> \o ExponentDigitsFrom(s, i + 1)

ExponentDigits(s) == ExponentDigitsFrom(s, 1)

\* the braced rewrite with a replacement that adds a pair of braces,
\* '$1^{{$2}}'
RECURSIVE ExponentBracedNestedFrom(_, _)
ExponentBracedNestedFrom(s, i) ==
    IF i > Len(s) THEN <<>>
    ELSE LET j == RunEnd(s, i, Alnum)
             k == IndexOf(s, "}", j + 2)
         IN
         IF j > i /\ j + 1 <= Len(s) /\ s[j] = "^" /\ s[j + 1] = "{"
                /\ k > j + 2 /\ k <= Len(s)
         THEN Sub(s, i, j - 1) \o <<"^", "{", "{">> \o Sub(s, j + 2, k - 1)
                  \o <<"}", "}">> \o ExponentBracedNestedFrom(s, k + 1)
         ELSE <<s[i]>> \o ExponentBracedNestedFrom(s, i + 1)

ExponentBracedNested(s) == ExponentBracedNestedFrom(s, 1)

\* processed.replace(/([a-zA-Z0-9]+)\^{([^}]+)}/g, '$1^{$2}')
RECURSIVE ExponentBracedFrom(_, _)
ExponentBracedFrom(s, i) ==
    IF i > Len(s) THEN <<>>
    ELSE LET j == RunEnd(s, i, Alnum)
             k == IndexOf(s, "}", j + 2)
         IN
         IF j > i /\ j + 1 <= Len(s) /\ s[j] = "^" /\ s[j + 1] = "{"
                /\ k > j + 2 /\ k <= Len(s)
         THEN Sub(s, i, j - 1) \o <<"^", "{">> \o Sub(s, j + 2, k - 1)
                  \o <<"}">> \o ExponentBracedFrom(s, k + 1)
         ELSE <<s[i]>> \o ExponentBracedFrom(s, i + 1)

ExponentBraced(s) == ExponentBracedFrom(s, 1)

\* the two exponent replace calls, in the order of the code
ExponentRule(s) == ExponentBraced(ExponentDigits(s))

\* processed.replace(/SQRT\(([^)]+)\)/g, '\\sqrt{$1}')
RECURSIVE RootParenFrom(_, _)
RootParenFrom(s, i) ==
    IF i > Len(s) THEN <<>>
    ELSE LET k == IndexOf(s, ")", i + 2) IN
         IF s[i] = "SQRT" /\ i + 1 <= Len(s) /\ s[i + 1] = "("
                /\ k > i + 2 /\ k <= Len(s)
         THEN <<"\\", "s", "q", "r", "t", "{">> \o Sub(s, i + 2, k - 1)
                  \o <<"}">> \o RootParenFrom(s, k + 1)
         ELSE <<s[i]>> \o RootParenFrom(s, i + 1)

\* processed.replace(/SQRT(\d+)/g, '\\sqrt{$1}')
RECURSIVE RootDigitsFrom(_, _)
RootDigitsFrom(s, i) ==
    IF i > Len(s) THEN <<>>
    ELSE IF s[i] = "SQRT" /\ i + 1 <= Len(s) /\ s[i + 1] \in Digit
         THEN LET k == RunEnd(s, i + 1, Digit) IN
              <<"\\", "s", "q", "r", "t", "{">> \o Sub(s, i + 1, k - 1)
                  \o <<"}">> \o RootDigitsFrom(s, k)
         ELSE <<s[i]>> \o RootDigitsFrom(s, i + 1)

RootRule(s) == RootDigitsFrom(RootParenFrom(s, 1), 1)

\* the table greekLetters, in insertion order: <<character, latex>>
greekLetters ==
  <<
    <<"GREEK_alpha", <<"\\", "a", "l", "p", "h", "a">>>>,
    <<"GREEK_beta", <<"\\", "b", "e", "t", "a">>>>,
    <<"GREEK_gamma", <<"\\", "g", "a", "m", "m", "a">>>>,
    <<"GREEK_delta", <<"\\", "d", "e", "l", "t", "a">>>>,
    <<"GREEK_epsilon", <<"\\", "e", "p", "s", "i", "l", "o", "n">>>>,
    <<"GREEK_zeta", <<"\\", "z", "e", "t", "a">>>>,
    <<"GREEK_eta", <<"\\", "e", "t", "a">>>>,
    <<"GREEK_theta", <<"\\", "t", "h", "e", "t", "a">>>>,
    <<"GREEK_iota", <<"\\", "i", "o", "t", "a">>>>,
    <<"GREEK_kappa", <<"\\", "k", "a", "p", "p", "a">>>>,
    <<"GREEK_lambda", <<"\\", "l", "a", "m", "b", "d", "a">>>>,
    <<"GREEK_mu", <<"\\", "m", "u">>>>,
    <<"GREEK_nu", <<"\\", "n", "u">>>>,
    <<"GREEK_xi", <<"\\", "x", "i">>>>,
    <<"GREEK_pi", <<"\\", "p", "i">>>>,
    <<"GREEK_rho", <<"\\", "r", "h", "o">>>>,
    <<"GREEK_sigma", <<"\\", "s", "i", "g", "m", "a">>>>,
    <<"GREEK_tau", <<"\\", "t", "a", "u">>>>,
    <<"GREEK_upsilon", <<"\\", "u", "p", "s", "i", "l", "o", "n">>>>,
    <<"GREEK_phi", <<"\\", "p", "h", "i">>>>,
    <<"GREEK_chi", <<"\\", "c", "h", "i">>>>,
    <<"GREEK_psi", <<"\\", "p", "s", "i">>>>,
    <<"GREEK_omega", <<"\\", "o", "m", "e", "g", "a">>>>,
    <<"GREEK_Gamma", <<"\\", "G", "a", "m", "m", "a">>>>,
    <<"GREEK_Delta", <<"\\", "D", "e", "l", "t", "a">>>>,
    <<"GREEK_Theta", <<"\\", "T", "h", "e", "t", "a">>>>,
    <<"GREEK_Lambda", <<"\\", "L", "a", "m", "b", "d", "a">>>>,
    <<"GREEK_Xi", <<"\\", "X", "i">>>>,
    <<"GREEK_Pi", <<"\\", "P", "i">>>>,
    <<"GREEK_Sigma", <<"\\", "S", "i", "g", "m", "a">>>>,
    <<"GREEK_Phi", <<"\\", "P", "h", "i">>>>,
    <<"GREEK_Psi", <<"\\", "P", "s", "i">>>>,
    <<"GREEK_Omega", <<"\\", "O", "m", "e", "g", "a">>>>
  >>

\* the eleven operator replace calls, in the order of the code
operatorSymbols ==
  <<
    <<"OP_LEQ", <<"\\", "l", "e", "q">>>>,
    <<"OP_GEQ", <<"\\", "g", "e", "q">>>>,
    <<"OP_NEQ", <<"\\", "n", "e", "q">>>>,
    <<"OP_PM", <<"\\", "p", "m">>>>,
    <<"OP_INFTY", <<"\\", "i", "n", "f", "t", "y">>>>,
    <<"OP_SUM", <<"\\", "s", "u", "m">>>>,
    <<"OP_INT", <<"\\", "i", "n", "t">>>>,
    <<"OP_PARTIAL", <<"\\", "p", "a", "r", "t", "i", "a", "l">>>>,
    <<"OP_NABLA", <<"\\", "n", "a", "b", "l", "a">>>>,
    <<"OP_TIMES", <<"\\", "t", "i", "m", "e", "s">>>>,
    <<"OP_DIV", <<"\\", "d", "i", "v">>>>
  >>

\* the replacement text `$${latex}$` / '$\\leq$': the command between two `$`
InlineWrap(latex) == <<"$">> \o latex \o <<"$">>

\* processed.replace(new RegExp(char, 'g'), replacement)
ReplaceChar(s, c, replacement) ==
    Concat([i \in 1..Len(s) |-> IF s[i] = c THEN replacement ELSE <<s[i]>>])

\* one replace call per table entry, entries lo..hi in order: those of the
\* first half of the range, then on their result those of the second half
RECURSIVE SymbolRuleRange(_, _, _, _)
SymbolRuleRange(s, table, lo, hi) ==
    IF s = <<>> \/ lo > hi THEN s
    ELSE IF lo = hi
    THEN ReplaceChar(s, table[lo][1], InlineWrap(table[lo][2]))
    ELSE SymbolRuleRange(SymbolRuleRange(s, table, lo, (lo + hi) \div 2),
                         table, ((lo + hi) \div 2) + 1, hi)

GreekRule(s) == SymbolRuleRange(s, greekLetters, 1, Len(greekLetters))

OperatorRule(s) == SymbolRuleRange(s, operatorSymbols, 1, Len(operatorSymbols))

\* the callback with the closing delimiter one `$` short
EquationCallbackUnclosed(match) ==
    IF Includes(match, {"$"}) THEN match
    ELSE IF Includes(match, OperatorClass) /\ Includes(match, Digit)
         THEN <<"$", "$">> \o Trim(match) \o <<"$">>
         ELSE match

\* the callback of the equationPattern replace call
EquationCallback(match) ==
    IF Includes(match, {"$"}) THEN match
    ELSE IF Includes(match, OperatorClass) /\ Includes(match, Digit)
         THEN <<"$", "$">> \o Trim(match) \o <<"$", "$">>
         ELSE match

\* processed.replace(equationPattern, callback)
RECURSIVE EquationFrom(_, _)
EquationFrom(s, i) ==
    IF i > Len(s) THEN <<>>
    ELSE LET j == RunEnd(s, i, EquationClass)
             k == RunEnd(s, j + 1, EquationClass)
         IN
         IF j > i /\ j <= Len(s) /\ s[j] = "=" /\ k > j + 1
         THEN EquationCallback(Sub(s, i, k - 1)) \o EquationFrom(s, k)
         ELSE <<s[i]>> \o EquationFrom(s, i + 1)

EquationRule(s) == EquationFrom(s, 1)

detectMathPatterns(s) ==
    EquationRule(OperatorRule(GreekRule(RootRule(ExponentRule(FractionRule(s))))))

(***************************************************************************)
(* Line reconstruction (POST, the body of the page loop).  An item is      *)
(* [hasStr, str, y]: `'str' in item`, item.str and item.transform[5].      *)
(***************************************************************************)
LineThreshold == 5

Abs(n) == IF n < 0 THEN -n ELSE n

\* `lastY && Math.abs(item.transform[5] - lastY) > 5`: a number is truthy
\* unless it is 0
BreakBefore(last, y) == last # 0 /\ Abs(y - last) > LineThreshold

\* the forEach callback on the accumulator [pageText, lastY]
ItemStep(acc, item) ==
    IF item.hasStr
    THEN [ pageText |->
               (IF BreakBefore(acc.lastY, item.y)
                THEN acc.pageText \o <<NL>> ELSE acc.pageText)
                   \o item.str \o <<" ">>,
           lastY |-> item.y ]
    ELSE acc

\* pageText.replace(/ +/g, ' ')
RECURSIVE CollapseSpaces(_)
CollapseSpaces(s) ==
    IF s = <<>> THEN <<>>
    ELSE IF Head(s) = " "
         THEN <<" ">> \o CollapseSpaces(Sub(s, RunEnd(s, 1, {" "}), Len(s)))
         ELSE <<Head(s)>> \o CollapseSpaces(Tail(s))

\* pageText.replace(/ +/g, ' ').trim()
CleanUp(s) == Trim(CollapseSpaces(s))

RECURSIVE ForEachItem(_, _, _)
ForEachItem(items, n, acc) ==
    IF n > Len(items) THEN acc
    ELSE ForEachItem(items, n + 1, ItemStep(acc, items[n]))

\* lines 108-124: the page text of a list of items
ReconstructPage(items) ==
    CleanUp(ForEachItem(items, 1, [pageText |-> <<>>, lastY |-> 0]).pageText)

(***************************************************************************)
(* The reconstruction as a state machine: one step per item, then the      *)
(* clean-up.                                                               *)
(***************************************************************************)
MaxItems == 3

Baselines == {0, 100, 105, 106}

FragmentTexts == { <<"a">>, <<>>, <<"b", " ", " ", "c">> }

\* a marked-content item has no `str`
MarkedContent == [hasStr |-> FALSE, str |-> <<>>, y |-> 0]

Items == [hasStr : {TRUE}, str : FragmentTexts, y : Baselines] \cup {MarkedContent}

ReconInit ==
    /\ textItems \in Strings(Items, MaxItems)
    /\ itemIdx = 1
    /\ pageText = <<>>
    /\ lastY = 0
    /\ rpc = "forEach"

VisitItem ==
    /\ rpc = "forEach"
    /\ itemIdx <= Len(textItems)
    /\ LET acc == ItemStep([pageText |-> pageText, lastY |-> lastY],
                            textItems[itemIdx])
       IN /\ pageText' = acc.pageText
          /\ lastY' = acc.lastY
    /\ itemIdx' = itemIdx + 1
    /\ UNCHANGED <<textItems, rpc>>

EndForEach ==
    /\ rpc = "forEach"
    /\ itemIdx > Len(textItems)
    /\ rpc' = "cleanup"
    /\ UNCHANGED <<textItems, itemIdx, pageText, lastY>>

CleanUpText ==
    /\ rpc = "cleanup"
    /\ pageText' = CleanUp(pageText)
    /\ rpc' = "done"
    /\ UNCHANGED <<textItems, itemIdx, lastY>>

ReconNext ==
    \/ (VisitItem /\ UNCHANGED <<annotVars, renderVars, streamVars>>)
    \/ (EndForEach /\ UNCHANGED <<annotVars, renderVars, streamVars>>)
    \/ (CleanUpText /\ UNCHANGED <<annotVars, renderVars, streamVars>>)

ReconStart == ReconInit /\ AnnotIdle /\ RenderIdle /\ StreamIdle

SpecRecon == ReconStart /\ [][ReconNext]_vars

\* the fragments of a page: its items that have a `str`
Fragments(items) == SelectSeq(items, LAMBDA it : it.hasStr)

\* the consecutive fragment pairs whose baselines differ by more than 5
Crossings(frags) ==
    Cardinality({i \in 1..(Len(frags) - 1) :
                    Abs(frags[i + 1].y - frags[i].y) > LineThreshold})

LineBreaks(s) == Cardinality({i \in 1..Len(s) : s[i] = NL})

\* C7, on pages whose fragments all hold visible text: the number of line
\* breaks in the reconstructed page text equals the number of consecutive
\* fragment pairs whose baselines differ by more than 5 units.
C7_BreaksEqualCrossings ==
    (rpc = "done" /\ \A i \in 1..Len(textItems) :
                         textItems[i].hasStr /\ textItems[i].str = <<"a">>)
        => LineBreaks(pageText) = Crossings(Fragments(textItems))

(***************************************************************************)
(* The annotator as a state machine: one action per rule, in the order of  *)
(* the code.  The page texts are all strings up to MaxTextLen over a small *)
(* alphabet with a character of each kind the rules react to, and a few    *)
(* longer lines.                                                           *)
(***************************************************************************)
MaxTextLen == 4

AnnotAlphabet == {"x", "2", "=", "^", "GREEK_pi", "$", " "}

\* "E=mc^2 and <pi> is useful"
ExampleLine ==
    <<"E", "=", "m", "c", "^", "2", " ", "a", "n", "d", " ", "GREEK_pi",
      " ", "i", "s", " ", "u", "s", "e", "f", "u", "l">>

SampleTexts ==
    { ExampleLine,
      <<"y", "=", "3", "/", "4">>,
      <<"SQRT", "(", "x", ")", " ", "SQRT", "9">>,
      <<"a", "OP_LEQ", "b", " ", "x", "=", "1">>,
      <<"GREEK_alpha", " ", "x", "=", "1", " ", "GREEK_beta">> }

AnnotInit ==
    /\ text \in Strings(AnnotAlphabet, MaxTextLen) \cup SampleTexts
    /\ processed = text
    /\ before = text
    /\ phase = "fraction"

\* processed = <the result of a rule on processed>
RuleStep(from, to, result) ==
    /\ phase = from
    /\ before' = processed
    /\ processed' = result
    /\ phase' = to
    /\ UNCHANGED text

Fractions == RuleStep("fraction", "exponent", FractionRule(processed))

Exponents == RuleStep("exponent", "root", ExponentRule(processed))

SquareRoots == RuleStep("root", "greek", RootRule(processed))

Greek == RuleStep("greek", "operator", GreekRule(processed))

Operators == RuleStep("operator", "equation", OperatorRule(processed))

Equations == RuleStep("equation", "done", EquationRule(processed))

AnnotNext ==
    \/ (Fractions /\ UNCHANGED <<reconVars, renderVars, streamVars>>)
    \/ (Exponents /\ UNCHANGED <<reconVars, renderVars, streamVars>>)
    \/ (SquareRoots /\ UNCHANGED <<reconVars, renderVars, streamVars>>)
    \/ (Greek /\ UNCHANGED <<reconVars, renderVars, streamVars>>)
    \/ (Operators /\ UNCHANGED <<reconVars, renderVars, streamVars>>)
    \/ (Equations /\ UNCHANGED <<reconVars, renderVars, streamVars>>)

AnnotStart == AnnotInit /\ ReconIdle /\ RenderIdle /\ StreamIdle

SpecAnnot == AnnotStart /\ [][AnnotNext]_vars

(***************************************************************************)
(* Delimiter structure of an annotated text: a flat sequence of plain      *)
(* characters, inline regions `$...$` and block regions `$$...$$`, each    *)
(* region closed and holding no `$` of its own.                            *)
(***************************************************************************)
RECURSIVE WellDelimitedFrom(_, _)
WellDelimitedFrom(s, i) ==
    IF i > Len(s) THEN TRUE
    ELSE IF s[i] # "$" THEN WellDelimitedFrom(s, i + 1)
    ELSE IF i + 1 <= Len(s) /\ s[i + 1] = "$"
         THEN LET k == IndexOf(s, "$", i + 2) IN
              /\ k > i + 2
              /\ k + 1 <= Len(s)
              /\ s[k + 1] = "$"
              /\ WellDelimitedFrom(s, k + 2)
         ELSE LET k == IndexOf(s, "$", i + 1) IN
              /\ k > i + 1
              /\ k <= Len(s)
              /\ WellDelimitedFrom(s, k + 1)

WellDelimited(s) == WellDelimitedFrom(s, 1)

\* C5 as stated: for every page text given to the annotator, the `$`
\* delimiters of the returned content are balanced and non-nested.
C5_BalancedForEveryText ==
    phase = "done" => WellDelimited(processed)

\* C5 as amended: for every page text that holds no `$` of its own, the `$`
\* delimiters of the returned content are balanced and non-nested: the
\* content is a flat sequence of plain text, closed inline regions and
\* closed block regions, and no block region produced by the equation rule
\* encloses or wraps a region delimited by an earlier rule.
C5_BalancedWhenTextHasNoDollar ==
    (phase = "done" /\ ~Includes(text, {"$"})) => WellDelimited(processed)

\* a `$`-free text in which the Greek rule delimited a region and the
\* equation rule then wrapped a span
C5_Witness ==
    /\ phase = "done"
    /\ ~Includes(text, {"$"})
    /\ Includes(before, {"$"})
    /\ processed # before

\* "$$E=mc^{2} and $$$\pi$ is useful"
ExampleClaimed ==
    <<"$", "$", "E", "=", "m", "c", "^", "{", "2", "}", " ", "a", "n", "d",
      " ", "$", "$", "$", "\\", "p", "i", "$", " ", "i", "s", " ", "u", "s",
      "e", "f", "u", "l">>

\* "E=mc^{2} and $\pi$ is useful"
ExampleReturned ==
    <<"E", "=", "m", "c", "^", "{", "2", "}", " ", "a", "n", "d", " ", "$",
      "\\", "p", "i", "$", " ", "i", "s", " ", "u", "s", "e", "f", "u", "l">>

\* C6 as stated: for the line "E=mc^2 and <pi> is useful" the equation rule
\* wraps the span up to the first inserted `$`, braced exponent included,
\* and the annotator returns "$$E=mc^{2} and $$$\pi$ is useful".
C6_ExampleWrapped ==
    (phase = "done" /\ text = ExampleLine) => processed = ExampleClaimed

\* C6 as amended: for the line "E=mc^2 and <pi> is useful" the exponent and
\* Greek rules yield "E=mc^{2} and $\pi$ is useful", and the equation rule,
\* whose character class has neither `{` nor `}`, leaves it unchanged: the
\* annotator returns "E=mc^{2} and $\pi$ is useful".
C6_ExampleLeftUnwrapped ==
    (phase \in {"equation", "done"} /\ text = ExampleLine)
        => processed = ExampleReturned

\* the example line after the equation rule has run
C6_Witness ==
    /\ phase = "done"
    /\ text = ExampleLine
    /\ before = ExampleReturned

(***************************************************************************)
(* The exponent rule on its own, applied twice to any text.                *)
(***************************************************************************)
MaxExpLen == 5

ExpAlphabet == {"x", "2", "^", "{", "}"}

ExpInit ==
    /\ text \in Strings(ExpAlphabet, MaxExpLen)
    /\ processed = text
    /\ before = text
    /\ phase = "apply"

ApplyExponent == RuleStep("apply", "reapply", ExponentRule(processed))

ReapplyExponent == RuleStep("reapply", "reapplied", ExponentRule(processed))

ExpNext ==
    \/ (ApplyExponent /\ UNCHANGED <<reconVars, renderVars, streamVars>>)
    \/ (ReapplyExponent /\ UNCHANGED <<reconVars, renderVars, streamVars>>)

ExpStart == ExpInit /\ ReconIdle /\ RenderIdle /\ StreamIdle

SpecExponent == ExpStart /\ [][ExpNext]_vars

\* C9: the exponent rule is idempotent: applied to its own result, the two
\* exponent rewrites return that result unchanged.
C9_ExponentIdempotent ==
    phase = "reapplied" => processed = before

\* a text the first application rewrote, after the second application
C9_Witness ==
    /\ phase = "reapplied"
    /\ before # text

(***************************************************************************)
(* MathRenderer: the forEach callback on one line.  Indices are 0-based as *)
(* in the code; character i of the code is line[i + 1].                    *)
(***************************************************************************)
\* what `.` does not match
LineTerminators == {NL, "\r"}

\* the first 0-based index >= i at which `close` (one or two `$`) starts,
\* the characters from i up to it being matched by `.`; -1 if there is none
RECURSIVE LazyClose(_, _, _)
LazyClose(s, i, width) ==
    IF i + width > Len(s) THEN -1
    ELSE IF \A d \in 1..width : s[i + d] = "$" THEN i
    ELSE IF s[i + 1] \in LineTerminators THEN -1
    ELSE LazyClose(s, i + 1, width)

\* regex.exec from 0-based index `from`, the delimiter being `width`
\* dollars: /\$\$(.*?)\$\$/g (width 2) or /\$(.*?)\$/g (width 1).
\* The match is [index, content, end], or [index |-> -1] for null.
RECURSIVE Exec(_, _, _)
Exec(s, from, width) ==
    IF from + width > Len(s) THEN [index |-> -1, content |-> <<>>, end |-> 0]
    ELSE IF \A d \in 1..width : s[from + d] = "$"
         THEN LET c == LazyClose(s, from + width, width) IN
              IF c >= 0
              THEN [ index |-> from,
                     content |-> Sub(s, from + width + 1, c),
                     end |-> c + width ]
              ELSE Exec(s, from + 1, width)
         ELSE Exec(s, from + 1, width)

Dollars(width) == [d \in 1..width |-> "$"]

\* the fallback of the catch blocks with one `$` missing on each side of a
\* display span
FallbackTextInlineOnly(content, width) == <<"$">> \o content \o <<"$">>

\* the catch blocks: `$$${match[1]}$$` and `$${match[1]}$`
FallbackText(content, width) == Dollars(width) \o content \o Dollars(width)

\* what katex.render leaves in the span when it returns
Rendered == <<"KATEX">>

\* a text span of line.substring(from, to)
TextSpan(s, from, to) ==
    [ kind |-> "text", raw |-> Sub(s, from + 1, to),
      textContent |-> Sub(s, from + 1, to), failed |-> FALSE ]

\* a math span: katex.render either returns or throws
MathSpan(m, width, throws) ==
    [ kind |-> IF width = 2 THEN "blockMath" ELSE "inlineMath",
      raw |-> Dollars(width) \o m.content \o Dollars(width),
      textContent |-> IF throws THEN FallbackText(m.content, width)
                                ELSE Rendered,
      failed |-> throws ]

\* one iteration of a while loop over regex.exec
ScanStep(width) ==
    LET m == Exec(line, regexIndex, width) IN
    IF m.index >= 0
    THEN \E throws \in BOOLEAN :
            /\ children' =
                   (IF m.index > lastIndex
                    THEN Append(children, TextSpan(line, lastIndex, m.index))
                    ELSE children) \o <<MathSpan(m, width, throws)>>
            /\ lastIndex' = m.end
            /\ regexIndex' = m.end
            /\ hasDisplayMath' = (hasDisplayMath \/ width = 2)
            /\ UNCHANGED <<line, lineDivText, mpc>>
    ELSE /\ mpc' = IF width = 2 /\ ~hasDisplayMath THEN "inline" ELSE "rest"
         /\ regexIndex' = 0
         /\ lastIndex' = IF width = 2 /\ ~hasDisplayMath THEN 0 ELSE lastIndex
         /\ UNCHANGED <<line, hasDisplayMath, children, lineDivText>>

\* lines 36-58
DisplayScan ==
    /\ mpc = "display"
    /\ ScanStep(2)

\* lines 61-83
InlineScan ==
    /\ mpc = "inline"
    /\ ScanStep(1)

\* lines 86-97
FinishLine ==
    /\ mpc = "rest"
    /\ LET withRest ==
               IF lastIndex < Len(line)
               THEN Append(children, TextSpan(line, lastIndex, Len(line)))
               ELSE children
       IN /\ children' = withRest
          /\ lineDivText' =
                 IF withRest = <<>>
                 THEN (IF line # <<>> THEN line ELSE <<"NBSP">>)
                 ELSE <<>>
    /\ mpc' = "done"
    /\ UNCHANGED <<line, lastIndex, regexIndex, hasDisplayMath>>

MaxLineLen == 5

LineAlphabet == {"$", "x", "\r"}

RenderInit ==
    /\ line \in Strings(LineAlphabet, MaxLineLen)
    /\ lastIndex = 0
    /\ regexIndex = 0
    /\ hasDisplayMath = FALSE
    /\ children = <<>>
    /\ lineDivText = <<>>
    /\ mpc = "display"

RenderNext ==
    \/ (DisplayScan /\ UNCHANGED <<annotVars, reconVars, streamVars>>)
    \/ (InlineScan /\ UNCHANGED <<annotVars, reconVars, streamVars>>)
    \/ (FinishLine /\ UNCHANGED <<annotVars, reconVars, streamVars>>)

RenderStart == RenderInit /\ AnnotIdle /\ ReconIdle /\ StreamIdle

SpecRender == RenderStart /\ [][RenderNext]_vars


\* the segments' literal text, in order
SegmentsRaw == Concat([i \in 1..Len(children) |-> children[i].raw])

\* lineDiv.textContent
LineDivTextContent ==
    IF children = <<>> THEN lineDivText
    ELSE Concat([i \in 1..Len(children) |-> children[i].textContent])

MathSegments == {i \in 1..Len(children) : children[i].kind # "text"}

EveryRenderFailed == \A i \in MathSegments : children[i].failed

\* C8 as stated: for any line, the segments' literal text concatenated in
\* order is the line, and when the renderer fails on every math segment the
\* rendered line's text is the line verbatim.
C8_CoverageAndFallbackEveryLine ==
    mpc = "done" =>
        /\ SegmentsRaw = line
        /\ (EveryRenderFailed => LineDivTextContent = line)

\* C8 as amended: for any line, the segments' literal text concatenated in
\* order is the line; when the renderer fails on every math segment the
\* rendered text of a non-empty line is the line verbatim, and an empty line
\* renders as a single no-break space.
C8_CoverageAndFallback ==
    mpc = "done" =>
        /\ SegmentsRaw = line
        /\ ((EveryRenderFailed /\ line # <<>>) => LineDivTextContent = line)
        /\ (line = <<>> => LineDivTextContent = <<"NBSP">>)

\* a line with text and a block span whose rendering failed
C8_Witness ==
    /\ mpc = "done"
    /\ EveryRenderFailed
    /\ \E i \in MathSegments : children[i].kind = "blockMath"
    /\ \E i \in 1..Len(children) : children[i].kind = "text"

(***************************************************************************)
(* JSON values, JSON.stringify and JSON.parse.  A value is a string, a     *)
(* number or an object; an object's members are <<key, value>> pairs in    *)
(* insertion order.                                                        *)
(***************************************************************************)
JStr(s) == [t |-> "string", str |-> s, num |-> 0, members |-> <<>>]

JNum(n) == [t |-> "number", str |-> <<>>, num |-> n, members |-> <<>>]

JObj(m) == [t |-> "object", str |-> <<>>, num |-> 0, members |-> m]

Undefined == [t |-> "undefined", str |-> <<>>, num |-> 0, members |-> <<>>]

DigitChars == <<"0", "1", "2", "3", "4", "5", "6", "7", "8", "9">>

\* String(n) of a non-negative integer
RECURSIVE NumStr(_)
NumStr(n) ==
    IF n < 10 THEN <<DigitChars[n + 1]>>
    ELSE NumStr(n \div 10) \o <<DigitChars[(n % 10) + 1]>>

DigitValue(c) == CHOOSE d \in 0..9 : DigitChars[d + 1] = c

RECURSIVE NumVal(_)
NumVal(ds) ==
    IF ds = <<>> THEN 0
    ELSE 10 * NumVal(SubSeq(ds, 1, Len(ds) - 1)) + DigitValue(ds[Len(ds)])

\* the two-character escapes of a JSON string: <<character, escape letter>>
Escapes ==
    { <<"\"", "\"">>, <<"\\", "\\">>, <<NL, "n">>, <<"\r", "r">>,
      <<"\t", "t">> }

Escaped == {e[1] : e \in Escapes}

EscapeLetter(c) == (CHOOSE e \in Escapes : e[1] = c)[2]

\* JSON.stringify of the characters of a string
QuoteBody(s) ==
    Concat([i \in 1..Len(s) |->
               IF s[i] \in Escaped
               THEN <<"\\", EscapeLetter(s[i])>> ELSE <<s[i]>>])

Quote(s) == <<"\"">> \o QuoteBody(s) \o <<"\"">>

\* JSON.stringify
RECURSIVE Stringify(_)
RECURSIVE StringifyMembers(_, _)
StringifyMembers(m, n) ==
    IF n > Len(m) THEN <<>>
    ELSE (IF n > 1 THEN <<",">> ELSE <<>>)
             \o Quote(m[n][1]) \o <<":">> \o Stringify(m[n][2])
             \o StringifyMembers(m, n + 1)

Stringify(v) ==
    IF v.t = "string" THEN Quote(v.str)
    ELSE IF v.t = "number" THEN NumStr(v.num)
    ELSE <<"{">> \o StringifyMembers(v.members, 1) \o <<"}">>

ParseFail == [ok |-> FALSE, val |-> Undefined, next |-> 0]

\* the number of consecutive backslashes that end just before index j, none
\* of them before index i
BackslashesBefore(s, i, j) ==
    CHOOSE k \in 0..(j - i) :
        /\ \A m \in 1..k : s[j - m] = "\\"
        /\ k = j - i \/ s[j - k - 1] # "\\"

\* whether the character at j, in a string literal whose body starts at i,
\* is the letter of an escape
IsEscaped(s, i, j) == BackslashesBefore(s, i, j) % 2 = 1

\* the characters of the body s[i..j-1] of a string literal, its escapes
\* replaced
Unescape(s, i, j) ==
    Concat([m \in 1..(j - i) |->
               LET p == i + m - 1 IN
               IF IsEscaped(s, i, p)
               THEN <<(CHOOSE e \in Escapes : e[2] = s[p])[1]>>
               ELSE IF s[p] = "\\" THEN <<>>
               ELSE <<s[p]>>])

\* the body of a string literal from index i, the opening quote consumed,
\* up to the first quote that is not escaped
ParseStringBody(s, i) ==
    LET closing == {j \in i..Len(s) : s[j] = "\"" /\ ~IsEscaped(s, i, j)} IN
    IF closing = {} THEN ParseFail
    ELSE LET j == CHOOSE c \in closing : \A o \in closing : c <= o IN
         IF \E p \in i..(j - 1) :
               \/ IsEscaped(s, i, p) /\ ~\E e \in Escapes : e[2] = s[p]
               \/ ~IsEscaped(s, i, p) /\ s[p] \in {NL, "\r", "\t"}
         THEN ParseFail
         ELSE [ok |-> TRUE, val |-> JStr(Unescape(s, i, j)), next |-> j + 1]

RECURSIVE ParseValue(_, _)
RECURSIVE ParseMembers(_, _, _)
ParseMembers(s, i, acc) ==
    IF i > Len(s) \/ s[i] # "\"" THEN ParseFail
    ELSE LET k == ParseStringBody(s, i + 1) IN
         IF ~k.ok \/ k.next > Len(s) \/ s[k.next] # ":" THEN ParseFail
         ELSE LET v == ParseValue(s, k.next + 1) IN
              IF ~v.ok \/ v.next > Len(s) THEN ParseFail
              ELSE IF s[v.next] = ","
                   THEN ParseMembers(s, v.next + 1,
                                     Append(acc, <<k.val.str, v.val>>))
              ELSE IF s[v.next] = "}"
                   THEN [ ok |-> TRUE,
                          val |-> JObj(Append(acc, <<k.val.str, v.val>>)),
                          next |-> v.next + 1 ]
              ELSE ParseFail

ParseValue(s, i) ==
    IF i > Len(s) THEN ParseFail
    ELSE IF s[i] = "\"" THEN ParseStringBody(s, i + 1)
    ELSE IF s[i] \in Digit
         THEN LET j == RunEnd(s, i, Digit) IN
              IF s[i] = "0" /\ j > i + 1 THEN ParseFail
              ELSE [ok |-> TRUE, val |-> JNum(NumVal(Sub(s, i, j - 1))),
                    next |-> j]
    ELSE IF s[i] = "{"
         THEN IF i + 1 <= Len(s) /\ s[i + 1] = "}"
              THEN [ok |-> TRUE, val |-> JObj(<<>>), next |-> i + 2]
              ELSE ParseMembers(s, i + 1, <<>>)
    ELSE ParseFail

\* JSON.parse: [ok |-> FALSE] when it throws
JSONparse(s) ==
    LET r == ParseValue(s, 1) IN
    IF r.ok /\ r.next = Len(s) + 1 THEN r ELSE ParseFail

\* parsed.key
Prop(v, key) ==
    IF v.t = "object" /\ \E i \in 1..Len(v.members) : v.members[i][1] = key
    THEN v.members[CHOOSE i \in 1..Len(v.members) : v.members[i][1] = key][2]
    ELSE Undefined

(***************************************************************************)
(* TextEncoder and TextDecoder: UTF-8.  An ASCII character is its own      *)
(* byte; the radical sign is E2 88 9A and the no-break space C2 A0.        *)
(***************************************************************************)
Utf8(c) ==
    IF c = "SQRT" THEN <<"xE2", "x88", "x9A">>
    ELSE IF c = "NBSP" THEN <<"xC2", "xA0">>
    ELSE <<c>>

\* encoder.encode
Encode(s) == Concat([i \in 1..Len(s) |-> Utf8(s[i])])

\* the bytes that continue a sequence
Continuation == {"x88", "x9A", "xA0"}

\* the length of the sequence a byte starts
SequenceLength(b) == IF b = "xE2" THEN 3 ELSE IF b = "xC2" THEN 2 ELSE 1

\* whether the byte at i starts a sequence: it is no continuation of the
\* lead byte one or two places before it
StartsSequence(bs, i) ==
    \/ bs[i] \notin Continuation
    \/ ~\E j \in {i - 2, i - 1} :
           /\ j >= 1
           /\ bs[j] \notin Continuation
           /\ j + SequenceLength(bs[j]) > i
           /\ \A m \in (j + 1)..i : bs[m] \in Continuation

\* the index of the first byte of the incomplete sequence at the end of bs
\* (Len(bs) + 1 if bs ends with a complete one)
HeldFrom(bs) ==
    LET held(i) == /\ i >= 1
                   /\ StartsSequence(bs, i)
                   /\ i + SequenceLength(bs[i]) - 1 > Len(bs)
                   /\ \A m \in (i + 1)..Len(bs) : bs[m] \in Continuation
    IN IF held(Len(bs) - 1) THEN Len(bs) - 1
       ELSE IF held(Len(bs)) THEN Len(bs)
       ELSE Len(bs) + 1

CharOfBytes(bs) ==
    IF bs = <<"xE2", "x88", "x9A">> THEN "SQRT"
    ELSE IF bs = <<"xC2", "xA0">> THEN "NBSP"
    ELSE IF Len(bs) = 1 /\ bs[1] \notin Continuation THEN bs[1]
    ELSE "U+FFFD"

\* the character the sequence starting at i decodes to, nothing at a byte
\* that continues a sequence
DecodeAt(bs, i) ==
    IF StartsSequence(bs, i)
    THEN <<CharOfBytes(Sub(bs, i, IF i + SequenceLength(bs[i]) - 1 > Len(bs)
                                  THEN Len(bs)
                                  ELSE i + SequenceLength(bs[i]) - 1))>>
    ELSE <<>>

\* decoder.decode(value, {stream: true}) on the bytes held over and the new
\* ones: the characters decoded and the incomplete sequence held over
Utf8Decode(bs) ==
    [ chars |-> Concat([i \in 1..(HeldFrom(bs) - 1) |-> DecodeAt(bs, i)]),
      pending |-> Sub(bs, HeldFrom(bs), Len(bs)) ]

(***************************************************************************)
(* The events of the route.                                                *)
(***************************************************************************)
KeyType == <<"t", "y", "p", "e">>

KeyMessage == <<"m", "e", "s", "s", "a", "g", "e">>

KeyData == <<"d", "a", "t", "a">>

KeyPageNum == <<"p", "a", "g", "e", "N", "u", "m">>

KeyContent == <<"c", "o", "n", "t", "e", "n", "t">>

TypeProgress == <<"p", "r", "o", "g", "r", "e", "s", "s">>

TypePage == <<"p", "a", "g", "e">>

TypeComplete == <<"c", "o", "m", "p", "l", "e", "t", "e">>

TypeError == <<"e", "r", "r", "o", "r">>

MessageEvent(type, message) ==
    JObj(<< <<KeyType, JStr(type)>>, <<KeyMessage, JStr(message)>> >>)

\* 'Loading PDF...'
LoadingEvent ==
    MessageEvent(TypeProgress,
        <<"L", "o", "a", "d", "i", "n", "g", " ", "P", "D", "F", ".", ".", ".">>)

\* `Processing ${numPages} pages...`
PageCountEvent(n) ==
    MessageEvent(TypeProgress,
        <<"P", "r", "o", "c", "e", "s", "s", "i", "n", "g", " ">> \o NumStr(n)
            \o <<" ", "p", "a", "g", "e", "s", ".", ".", ".">>)

\* `Processing page ${pageNum} of ${numPages}...`
PageProgressEvent(k, n) ==
    MessageEvent(TypeProgress,
        <<"P", "r", "o", "c", "e", "s", "s", "i", "n", "g", " ", "p", "a", "g",
          "e", " ">> \o NumStr(k) \o <<" ", "o", "f", " ">> \o NumStr(n)
            \o <<".", ".", ".">>)

\* the page event numbered from 0
PageEventZeroBased(k, content) ==
    JObj(<< <<KeyType, JStr(TypePage)>>,
            <<KeyData, JObj(<< <<KeyPageNum, JNum(k - 1)>>,
                               <<KeyContent, JStr(content)>> >>)>> >>)

\* { type: 'page', data: { pageNum, content: processedText } }
PageEvent(k, content) ==
    JObj(<< <<KeyType, JStr(TypePage)>>,
            <<KeyData, JObj(<< <<KeyPageNum, JNum(k)>>,
                               <<KeyContent, JStr(content)>> >>)>> >>)

\* 'Processing complete!'
CompleteEvent ==
    MessageEvent(TypeComplete,
        <<"P", "r", "o", "c", "e", "s", "s", "i", "n", "g", " ", "c", "o", "m",
          "p", "l", "e", "t", "e", "!">>)

ErrorEvent(message) == MessageEvent(TypeError, message)

\* 'No file provided'
NoFileMessage ==
    <<"N", "o", " ", "f", "i", "l", "e", " ", "p", "r", "o", "v", "i", "d", "e",
      "d">>

\* what the awaited operations reject with: an Error with a message, or a
\* value that is no Error
ThrownValues == {"Error", "nonError"}

\* error instanceof Error ? error.message : 'Failed to process PDF'
ErrorMessage(v) ==
    IF v = "Error"
    THEN <<"I", "n", "v", "a", "l", "i", "d", " ", "P", "D", "F", " ", "s",
           "t", "r", "u", "c", "t", "u", "r", "e", ".">>
    ELSE <<"F", "a", "i", "l", "e", "d", " ", "t", "o", " ", "p", "r", "o",
           "c", "e", "s", "s", " ", "P", "D", "F">>

\* encoder.encode(`data: ${JSON.stringify(event)}\n\n`)
Frame(event) ==
    Encode(<<"d", "a", "t", "a", ":", " ">> \o Stringify(event) \o <<NL, NL>>)

Frames(events) == Concat([i \in 1..Len(events) |-> Frame(events[i])])

(***************************************************************************)
(* POST: the start callback of the ReadableStream, one action per awaited  *)
(* operation.  `inflight` holds the bytes enqueued and not yet read;       *)
(* `emitted` records the events enqueued.                                  *)
(***************************************************************************)
MaxPages == 2

\* the items getTextContent may return for a page
PageChoices ==
    { <<>>,
      << [hasStr |-> TRUE, str |-> <<"\"", "GREEK_pi">>, y |-> 100],
         [hasStr |-> TRUE, str |-> <<"SQRT">>, y |-> 90] >> }

\* the events the catch block enqueues, followed by a completion event
CatchEventsThenComplete(v) == <<ErrorEvent(ErrorMessage(v)), CompleteEvent>>

\* the event the catch block enqueues
CatchEvents(v) == <<ErrorEvent(ErrorMessage(v))>>

\* the head of the page loop and what follows it up to the next await:
\* the progress event of page k, or the completion event after the last page
LoopEvents(k, n) ==
    IF k <= n THEN <<PageProgressEvent(k, n)>> ELSE <<CompleteEvent>>

LoopPc(k, n) == IF k <= n THEN "getPage" ELSE "done"

\* controller.enqueue of each event in turn, then controller.close() if
\* `closes`.  Once the stream is cancelled enqueue throws: in the try block
\* the catch block runs, whose own enqueue throws again, and start() rejects
\* with nothing enqueued.  `caught` is the value the catch block caught
\* ("none" in the try block).
Produce(events, nextPc, closes, caught) ==
    IF cancelled /\ events # <<>>
    THEN /\ pc' = "aborted"
         /\ thrown' = IF caught = "none" THEN "TypeError" ELSE caught
         /\ UNCHANGED <<inflight, emitted, closed>>
    ELSE /\ pc' = nextPc
         /\ thrown' = IF caught = "none" THEN thrown ELSE caught
         /\ inflight' = inflight \o Frames(events)
         /\ emitted' = emitted \o events
         /\ closed' = (closed \/ closes)

\* lines 145-154
Catch(v) == Produce(CatchEvents(v), "done", TRUE, v)

\* lines 76-89
GetFormData ==
    /\ pc = "formData"
    /\ \/ \E v \in ThrownValues : Catch(v)
       \/ Produce(<<ErrorEvent(NoFileMessage)>>, "done", TRUE, "none")
       \/ Produce(<<LoadingEvent>>, "getDocument", FALSE, "none")
    /\ UNCHANGED <<pageNum, numPages, pdfOpen, loads>>

\* lines 91-102
GetDocument ==
    /\ pc = "getDocument"
    /\ \/ /\ \E v \in ThrownValues : Catch(v)
          /\ UNCHANGED <<pageNum, numPages, pdfOpen, loads>>
       \/ \E n \in 0..MaxPages :
             /\ pdfOpen' = TRUE
             /\ loads' = loads + 1
             /\ numPages' = n
             /\ pageNum' = IF cancelled THEN pageNum ELSE 1
             /\ Produce(<<PageCountEvent(n)>> \o LoopEvents(1, n),
                        LoopPc(1, n), 1 > n, "none")

\* line 104
GetPage ==
    /\ pc = "getPage"
    /\ \/ \E v \in ThrownValues : Catch(v)
       \/ /\ pc' = "getTextContent"
          /\ UNCHANGED <<thrown, inflight, emitted, closed>>
    /\ UNCHANGED <<pageNum, numPages, pdfOpen, loads>>

\* lines 105-144
GetTextContent ==
    /\ pc = "getTextContent"
    /\ \/ /\ \E v \in ThrownValues : Catch(v)
          /\ UNCHANGED pageNum
       \/ \E items \in PageChoices :
             /\ pageNum' = IF cancelled THEN pageNum ELSE pageNum + 1
             /\ Produce(<<PageEvent(pageNum,
                                    detectMathPatterns(ReconstructPage(items)))>>
                            \o LoopEvents(pageNum + 1, numPages),
                        LoopPc(pageNum + 1, numPages),
                        pageNum + 1 > numPages, "none")
    /\ UNCHANGED <<numPages, pdfOpen, loads>>

(***************************************************************************)
(* handleUpload: the read loop.  `handled` records the events the loop     *)
(* parsed and dispatched.                                                  *)
(***************************************************************************)
MaxChunk == 2

\* buffer.split('\n')
\* the pieces of s[lo..hi] between its line feeds, halving the range: the
\* last piece of the left half and the first of the right half are one piece
RECURSIVE SplitRange(_, _, _)
SplitRange(s, lo, hi) ==
    IF lo > hi THEN << <<>> >>
    ELSE IF lo = hi THEN (IF s[lo] = NL THEN << <<>>, <<>> >> ELSE << <<s[lo]>> >>)
    ELSE LET l == SplitRange(s, lo, (lo + hi) \div 2)
             r == SplitRange(s, ((lo + hi) \div 2) + 1, hi)
         IN Sub(l, 1, Len(l) - 1) \o << l[Len(l)] \o r[1] >> \o Tail(r)

Split(s) == SplitRange(s, 1, Len(s))

\* the partial line dropped instead of kept
DropPartial(lines) == <<>>

\* lines.pop() || ''
KeepPartial(lines) == lines[Len(lines)]

StartsWith(s, prefix) ==
    Len(s) >= Len(prefix) /\ SubSeq(s, 1, Len(prefix)) = prefix

StrOf(v) == IF v.t = "string" THEN v.str ELSE <<>>

\* the error branch clearing the result list as well
OnErrorClearing(c, parsed) ==
    [c EXCEPT !.error = StrOf(Prop(parsed, KeyMessage)), !.results = <<>>]

\* setError(parsed.message)
OnError(c, parsed) == [c EXCEPT !.error = StrOf(Prop(parsed, KeyMessage))]

\* lines 83-91 on the consumer state [results, progress, error, handled]
Dispatch(c, parsed) ==
    LET type == Prop(parsed, KeyType)
        d == [c EXCEPT !.handled = Append(c.handled, parsed)]
    IN
    IF type = JStr(TypeProgress)
    THEN [d EXCEPT !.progress = StrOf(Prop(parsed, KeyMessage))]
    ELSE IF type = JStr(TypePage)
    THEN [d EXCEPT !.results = Append(d.results, Prop(parsed, KeyData))]
    ELSE IF type = JStr(TypeComplete)
    THEN [d EXCEPT !.progress = <<"C", "o", "m", "p", "l", "e", "t", "e", "!">>]
    ELSE IF type = JStr(TypeError)
    THEN OnError(d, parsed)
    ELSE d

\* lines 78-95: one line of the batch
HandleLine(c, ln) ==
    IF StartsWith(ln, <<"d", "a", "t", "a", ":", " ">>)
    THEN LET r == JSONparse(Sub(ln, 7, Len(ln))) IN
         IF r.ok THEN Dispatch(c, r.val) ELSE c
    ELSE c

RECURSIVE HandleLines(_, _, _)
HandleLines(c, lines, n) ==
    IF n >= Len(lines) THEN c
    ELSE HandleLines(HandleLine(c, lines[n]), lines, n + 1)

\* the sizes of the next chunk when n bytes are in flight: a short read, or
\* all that is in flight but for a few bytes
ChunkSizes(n) == {k \in 1..n : k <= MaxChunk \/ k >= n - MaxChunk}

\* lines 70-96: reader.read() resolves with a chunk.  The decoded text, the
\* lines and the consumer state after them are bound once each.
Read ==
    /\ cpc = "reading"
    /\ inflight # <<>>
    /\ \E k \in ChunkSizes(Len(inflight)) :
       \E decoded \in {Utf8Decode(pending \o SubSeq(inflight, 1, k))} :
       \E lines \in {Split(buffer \o decoded.chars)} :
       \E c \in {HandleLines([ results |-> results, progress |-> progress,
                               error |-> error, handled |-> handled ],
                             lines, 1)} :
          /\ inflight' = Sub(inflight, k + 1, Len(inflight))
          /\ pending' = decoded.pending
          /\ buffer' = KeepPartial(lines)
          /\ results' = c.results
          /\ progress' = c.progress
          /\ error' = c.error
          /\ handled' = c.handled
    /\ UNCHANGED <<cpc, processing, cancelled>>

\* lines 70-71 and 100-102: read() resolves with done, the loop ends
ReadDone ==
    /\ cpc = "reading"
    /\ closed
    /\ inflight = <<>>
    /\ cpc' = "finished"
    /\ processing' = FALSE
    /\ UNCHANGED <<inflight, pending, buffer, results, progress, error,
                   handled, cancelled>>

\* the consumer goes away (the page is closed): the stream is cancelled and
\* its queue dropped
Disconnect ==
    /\ cpc = "reading"
    /\ ~cancelled
    /\ cancelled' = TRUE
    /\ cpc' = "gone"
    /\ inflight' = <<>>
    /\ UNCHANGED <<pending, buffer, results, progress, error, handled,
                   processing>>

StreamInit ==
    /\ pc = "formData"
    /\ pageNum = 0
    /\ numPages = 0
    /\ pdfOpen = FALSE
    /\ loads = 0
    /\ closed = FALSE
    /\ cancelled = FALSE
    /\ thrown = "none"
    /\ inflight = <<>>
    /\ emitted = <<>>
    /\ cpc = "reading"
    /\ pending = <<>>
    /\ buffer = <<>>
    /\ results = <<>>
    /\ progress = <<"U", "p", "l", "o", "a", "d", "i", "n", "g", " ", "P", "D",
                    "F", ".", ".", ".">>
    /\ error = <<>>
    /\ processing = TRUE
    /\ handled = <<>>

consumerOnly == <<cpc, pending, buffer, results, progress, error, processing,
                  handled>>

producerOnly == <<pc, pageNum, numPages, pdfOpen, loads, closed, thrown,
                  emitted>>

others == <<annotVars, reconVars, renderVars>>

StreamNext ==
    \/ (GetFormData /\ UNCHANGED <<consumerOnly, cancelled, others>>)
    \/ (GetDocument /\ UNCHANGED <<consumerOnly, cancelled, others>>)
    \/ (GetPage /\ UNCHANGED <<consumerOnly, cancelled, others>>)
    \/ (GetTextContent /\ UNCHANGED <<consumerOnly, cancelled, others>>)
    \/ (Read /\ UNCHANGED <<producerOnly, others>>)
    \/ (ReadDone /\ UNCHANGED <<producerOnly, others>>)
    \/ (Disconnect /\ UNCHANGED <<producerOnly, others>>)

StreamStart == StreamInit /\ AnnotIdle /\ ReconIdle /\ RenderIdle

SpecStream == StreamStart /\ [][StreamNext]_vars

(***************************************************************************)
(* Properties of the event stream and of its consumer.                     *)
(***************************************************************************)
EventType(e) == StrOf(Prop(e, KeyType))

IsPage(e) == EventType(e) = TypePage

IsTerminal(e) == EventType(e) \in {TypeComplete, TypeError}

\* the page events of a sequence of events, in order
PagesOf(events) == SelectSeq(events, IsPage)

\* the `data` members of the page events of a sequence of events, in order
PageData(events) ==
    [i \in 1..Len(PagesOf(events)) |-> Prop(PagesOf(events)[i], KeyData)]

\* the page numbers of the page events of a sequence of events, in order
PageNumbers(events) ==
    [i \in 1..Len(PagesOf(events)) |->
        Prop(Prop(PagesOf(events)[i], KeyData), KeyPageNum)]

IsPrefix(s, t) == Len(s) <= Len(t) /\ SubSeq(t, 1, Len(s)) = s

\* the request carried a document, every awaited operation resolved and the
\* start callback ran to its end
CompletedNormally == pc = "done" /\ loads = 1 /\ thrown = "none"

\* an awaited operation rejected and the catch block ran to its end
Failed == pc = "done" /\ thrown \in ThrownValues

\* the page whose processing failed (1 when the failure came before any page)
FailedPage == IF pageNum = 0 THEN 1 ELSE pageNum

\* C1: when a document of N pages is processed and no operation fails, the
\* events are the loading announcement, the page count announcement, for
\* each page k = 1..N in order the progress event of page k immediately
\* followed by the page event numbered k, and then the completion event;
\* so there is one page event per page and none for N = 0.
C1_NormalSequence ==
    CompletedNormally =>
        /\ Len(emitted) = 2 * numPages + 3
        /\ emitted[1] = LoadingEvent
        /\ emitted[2] = PageCountEvent(numPages)
        /\ \A k \in 1..numPages :
              /\ emitted[2 * k + 1] = PageProgressEvent(k, numPages)
              /\ IsPage(emitted[2 * k + 2])
              /\ Prop(Prop(emitted[2 * k + 2], KeyData), KeyPageNum) = JNum(k)
        /\ emitted[2 * numPages + 3] = CompleteEvent
        /\ PageNumbers(emitted) = [k \in 1..numPages |-> JNum(k)]

\* a document of two pages was processed to the end
C1_Witness == CompletedNormally /\ numPages = 2 /\ Len(PagesOf(emitted)) = 2

\* C2: a terminal event (complete or error) is only ever the last event
\* emitted, so there is at most one and nothing follows it; and a run that
\* reaches its end (no file, a failure, or normal completion) has emitted
\* one and closed the stream.
C2_OneTerminalEventLast ==
    /\ \A i \in 1..Len(emitted) : IsTerminal(emitted[i]) => i = Len(emitted)
    /\ pc = "done" =>
          /\ emitted # <<>>
          /\ IsTerminal(emitted[Len(emitted)])
          /\ closed
    /\ (emitted # <<>> /\ IsTerminal(emitted[Len(emitted)])) => pc = "done"

\* a run that failed on a page after emitting events, its error event last
C2_Witness ==
    /\ Failed
    /\ pageNum >= 1
    /\ EventType(emitted[Len(emitted)]) = TypeError
    /\ Len(emitted) >= 4

\* C3: when decoding or the processing of page k fails, one error event
\* carrying the failure message is emitted, last; the page events before it
\* are pages 1..k-1 in order; and once the consumer has handled the error
\* event its result list holds exactly those pages, in that order.
C3_ErrorKeepsEarlierPages ==
    Failed =>
        /\ emitted[Len(emitted)] = ErrorEvent(ErrorMessage(thrown))
        /\ Cardinality({i \in 1..Len(emitted) :
                           EventType(emitted[i]) = TypeError}) = 1
        /\ PageNumbers(emitted) = [k \in 1..(FailedPage - 1) |-> JNum(k)]
        /\ (handled # <<>> /\ EventType(handled[Len(handled)]) = TypeError) =>
              /\ results = PageData(emitted)
              /\ Len(results) = FailedPage - 1
              /\ error = ErrorMessage(thrown)

\* page 2 failed and the consumer, its loop ended, shows the error and page 1
C3_Witness ==
    /\ Failed
    /\ pageNum = 2
    /\ cpc = "finished"
    /\ error = ErrorMessage(thrown)
    /\ Len(results) = 1

\* C4: the document handle is acquired at most once, and it is released by
\* the time the start callback has finished, whichever way it finished.
C4_HandleReleased ==
    /\ loads <= 1
    /\ (pc \in {"done", "aborted"} /\ loads > 0) => ~pdfOpen

\* C10: however the bytes are cut into chunks and however late they are
\* read, the consumer handles the events produced, each once and in order:
\* what it has handled is a prefix of what was emitted, its result list is
\* the data of the page events it has handled, and once it has read all that
\* is in flight it has handled every event emitted.
C10_OrderedDelivery ==
    /\ IsPrefix(handled, emitted)
    /\ results = PageData(handled)
    /\ (cpc # "gone" /\ inflight = <<>>) =>
          /\ handled = emitted
          /\ results = PageData(emitted)
          /\ buffer = <<>>
          /\ pending = <<>>

\* the consumer holds a page, the partial line of a later event is in its
\* buffer, and more bytes are in flight
C10_Witness ==
    /\ cpc = "reading"
    /\ Len(results) >= 1
    /\ buffer # <<>>
    /\ inflight # <<>>
    /\ Len(emitted) > Len(handled) + 1

====
